---- MODULE Spec2Model ----
(***************************************************************************)
(* Section-extraction and bundle-synchronization engine of the UNEP        *)
(* repository, for both copies of the scraper                              *)
(* (alicia_ass7_pdfextraction/scrape_unfccc.py and Ass8-9/kevin_scrape.py):*)
(* the Bundle Synchronizer (the persisted per-section bundle, the batch a  *)
(* pipeline run builds, the read-merge-write of write_section_outputs),    *)
(* the text normalizer clean_extracted_text, and the section extractor     *)
(* extract_sections_from_pdf.                                              *)
(*                                                                         *)
(* Strings that the code only compares for order are modelled by their     *)
(* rank: a country, a source_doc and a created_utc stamp are naturals      *)
(* ordered like the strings they stand for (created_utc is a fixed-width   *)
(* ISO-8601 stamp at second resolution, so the lexicographic order of the  *)
(* strings is the order of the seconds).                                   *)
(***************************************************************************)
EXTENDS Integers, Sequences, FiniteSets, TLC

\* ---------------------------------------------------------------- bounds
NLinks == 2
NTexts == 2
MaxRuns == 3
MaxKevinRuns == 2

\* The PDF links of the listing pages, named by their URL.
Urls == 1..NLinks
Texts == 1..NTexts

VARIABLES
    script,     \* which copy of the scraper owns the data directory
    bundle,     \* the persisted bundle file of one section (a JSON array)
    entries,    \* the batch of the last run, as left by the synchronization
                \* (the records written to the per-document JSON files)
    timestamp,  \* main's timestamp of the last run (seconds)
    now,        \* the wall clock (seconds)
    runs,       \* number of runs so far
    rerun,      \* the last run had the input of the run before it
    pc,         \* concurrent workers: position of each worker
    existing_entries, \* concurrent workers: the bundle each worker loaded
    new_entries,      \* concurrent workers: the batch each worker built
    serialized, \* concurrent workers: is there external serialization
    lock,       \* concurrent workers: holder of the external mutex, 0 if free
    txt,        \* normalizer alone: the text, before and after each pass
    passes,     \* normalizer alone: number of passes applied to txt
    raw_text,   \* extraction: "\n".join(page_texts) of the opened PDF
    combined_text,       \* extraction: the normalized document text
    section_definitions, \* extraction: the configuration, in its order
    section_spans,       \* extraction: seed span of each section found
    resolved,   \* extraction: (start, next_start) of each ordered section
    extracted,  \* extraction: the mapping extract_sections_from_pdf returns
    stage,      \* extraction: position in extract_sections_from_pdf
    kw_lines,   \* keyword pass: per line, does it hold a keyword
    matched_indices, \* keyword pass: indices of the matching lines
    clusters,   \* keyword pass: (start, prev) of each cluster
    seen_spans, \* keyword pass: the expanded windows emitted, in order
    context_lines,   \* keyword pass: indices of the lines emitted
    kw_stage,   \* keyword pass: position in extract_sections_by_keywords
    doc_lines,  \* heading ranges: per line, the section names it holds
    starts,     \* heading ranges: first line index of each name found
    ranges,     \* heading ranges: (start, end) of each name found
    ranges_stage,    \* heading ranges: position in find_section_ranges
    record,     \* store: the row of one country, <<>> when there is none
    upsert_call,     \* store: arguments and prior row of the last upsert
    upserts,    \* store: number of upserts so far
    pass_number,     \* quality loop: run()'s pass_number
    overall_conf,    \* quality loop: the gating score
    quality_log,     \* quality loop: checker_confidence set, per entry
    loop_pc,    \* quality loop: position in run()
    max_improvement_passes, \* quality loop: run()'s parameter
    confidence_target       \* quality loop: run()'s parameter

vars == <<script, bundle, entries, timestamp, now, runs, rerun,
          pc, existing_entries, new_entries, serialized, lock,
          txt, passes, raw_text, combined_text, section_definitions,
          section_spans, resolved, extracted, stage,
          kw_lines, matched_indices, clusters, seen_spans, context_lines,
          kw_stage, doc_lines, starts, ranges, ranges_stage,
          record, upsert_call, upserts,
          pass_number, overall_conf, quality_log, loop_pc,
          max_improvement_passes, confidence_target>>

seqVars == <<script, bundle, entries, timestamp, now, runs, rerun>>
concVars == <<pc, existing_entries, new_entries, serialized, lock>>
cleanVars == <<txt, passes>>
extractVars == <<raw_text, combined_text, section_definitions,
                 section_spans, resolved, extracted, stage>>

keywordVars == <<kw_lines, matched_indices, clusters, seen_spans,
                 context_lines, kw_stage>>
rangeVars == <<doc_lines, starts, ranges, ranges_stage>>
storeVars == <<record, upsert_call, upserts>>
loopVars == <<pass_number, overall_conf, quality_log, loop_pc,
              max_improvement_passes, confidence_target>>
scraperVars == <<keywordVars, rangeVars, storeVars, loopVars>>

\* No keyword pass is running.
NoKeywords ==
    /\ kw_lines = <<>>
    /\ matched_indices = <<>>
    /\ clusters = <<>>
    /\ seen_spans = <<>>
    /\ context_lines = <<>>
    /\ kw_stage = "idle"

\* No heading search is running.
NoRanges ==
    /\ doc_lines = <<>>
    /\ starts = <<>>
    /\ ranges = <<>>
    /\ ranges_stage = "idle"

\* The store holds no row and nothing was upserted.
NoStore ==
    /\ record = <<>>
    /\ upsert_call = <<>>
    /\ upserts = 0

\* No document is being drafted.
NoLoop ==
    /\ pass_number = 0
    /\ overall_conf = 0
    /\ quality_log = <<>>
    /\ loop_pc = "idle"
    /\ max_improvement_passes = 0
    /\ confidence_target = 0

NoScraper == NoKeywords /\ NoRanges /\ NoStore /\ NoLoop

\* No text is being normalized and no PDF is open.
NoText ==
    /\ txt = <<>>
    /\ passes = 0
    /\ raw_text = <<>>
    /\ combined_text = <<>>
    /\ section_definitions = <<>>
    /\ section_spans = <<>>
    /\ resolved = <<>>
    /\ extracted = <<>>
    /\ stage = "idle"

\* ------------------------------------------------------------ provenance
\* The section a bundle belongs to: one bundle file per section name.
AliciaSection == "Institutional framework for climate action"
KevinSection == "GHG Inventory Module"

\* The country whose listing shows the link: get_pdf_links keeps the rows
\* that name the country of the run.  Links alternate between two countries.
country_of(url) == IF url % 2 = 1 THEN 1 ELSE 2

Countries == {country_of(url) : url \in Urls}

\* PDFLink.source_doc of the document behind a URL (deduce_doc_type of the
\* listing row): the first URL is the later report, the others the earlier.
source_doc_of(url) == IF url = 1 THEN 2 ELSE 1

Range(s) == {s[i] : i \in DOMAIN s}

\* key_fields of merge_bundles
Key(entry) == <<entry.country, entry.section, entry.source_doc, entry.doc_url>>

build_json_entry(country, section, source_doc, url, text, ts) ==
    [country |-> country, section |-> section, source_doc |-> source_doc,
     doc_url |-> url, extracted_text |-> text, created_utc |-> ts,
     stale |-> FALSE]

kevin_build_json_entry(country, section, source_doc, url, text, ts) ==
    [country |-> country, section |-> section, source_doc |-> source_doc,
     doc_url |-> url, extracted_text |-> text, created_utc |-> ts]

\* ------------------------------------------------------------------ sort
\* The sort key of both writers: (country, source_doc, created_utc).
SortKeyLE(a, b) ==
    \/ a.country < b.country
    \/ /\ a.country = b.country
       /\ \/ a.source_doc < b.source_doc
          \/ /\ a.source_doc = b.source_doc
             /\ a.created_utc <= b.created_utc

\* One step of a stable sort: e goes behind every element not greater.
InsertStable(s, e) ==
    LET n == Cardinality({i \in DOMAIN s : SortKeyLE(s[i], e)})
    IN SubSeq(s, 1, n) \o <<e>> \o SubSeq(s, n + 1, Len(s))

RECURSIVE StableSort(_)
StableSort(s) ==
    IF s = <<>> THEN <<>>
    ELSE InsertStable(StableSort(SubSeq(s, 1, Len(s) - 1)), s[Len(s)])

\* A bug: merge_bundles returns updated_entries without sorting.
sort_entries_unsorted(s) == s

\* merge_bundles: updated_entries.sort(key=(country, source_doc, created_utc))
sort_entries(s) == StableSort(s)

\* kevin_scrape: all_entries_sorted = sorted(all_entries, key=...)
all_entries_sorted(all_entries) == StableSort(all_entries)

\* ----------------------------------------------------------- merge_bundles
\* existing_lookup: a dict built by a comprehension over the loaded list, so
\* a key maps to the LAST entry that carries it; 0 when the key is absent.
existing_lookup(existing, key) ==
    LET hits == {i \in DOMAIN existing : Key(existing[i]) = key}
    IN IF hits = {} THEN 0 ELSE CHOOSE i \in hits : \A j \in hits : j <= i

\* The dict iterates its keys in the order of their first insertion.
RECURSIVE lookup_keys(_)
lookup_keys(existing) ==
    IF existing = <<>> THEN <<>>
    ELSE LET front == lookup_keys(SubSeq(existing, 1, Len(existing) - 1))
             k == Key(existing[Len(existing)])
         IN IF k \in Range(front) THEN front ELSE Append(front, k)

\* A bug: an unchanged entry keeps its stale value but takes the run's stamp.
refresh_entry_restamp(existing, entry) ==
    LET i == existing_lookup(existing, Key(entry))
    IN IF i # 0 /\ existing[i].extracted_text = entry.extracted_text
       THEN [entry EXCEPT !.stale = existing[i].stale]
       ELSE entry

\* Not the code: an unchanged entry that comes back is current again.
refresh_entry_revive(existing, entry) ==
    LET i == existing_lookup(existing, Key(entry))
    IN IF i # 0 /\ existing[i].extracted_text = entry.extracted_text
       THEN [entry EXCEPT !.created_utc = existing[i].created_utc]
       ELSE entry

\* The incoming entry as the loop body leaves it (it is mutated in place).
refresh_entry(existing, entry) ==
    LET i == existing_lookup(existing, Key(entry))
    IN IF i # 0 /\ existing[i].extracted_text = entry.extracted_text
       THEN [entry EXCEPT !.created_utc = existing[i].created_utc,
                          !.stale = existing[i].stale]
       ELSE entry

\* A bug: the superseded entry is kept but not marked stale.
merge_entry_unmarked(existing, entry) ==
    LET i == existing_lookup(existing, Key(entry))
    IN IF i # 0 /\ existing[i].extracted_text # entry.extracted_text
       THEN <<existing[i], refresh_entry(existing, entry)>>
       ELSE <<refresh_entry(existing, entry)>>

\* A bug: the text comparison is lost, every known key counts as changed.
merge_entry_always_changed(existing, entry) ==
    LET i == existing_lookup(existing, Key(entry))
    IN IF i # 0
       THEN <<[existing[i] EXCEPT !.stale = TRUE], entry>>
       ELSE <<entry>>

\* A bug: the superseded entry is replaced instead of kept.
merge_entry_replace(existing, entry) == <<refresh_entry(existing, entry)>>

\* A bug: the append of the incoming entry sits inside the `if existing`.
merge_entry_known_only(existing, entry) ==
    LET i == existing_lookup(existing, Key(entry))
    IN IF i = 0 THEN <<>>
       ELSE IF existing[i].extracted_text # entry.extracted_text
       THEN <<[existing[i] EXCEPT !.stale = TRUE], refresh_entry(existing, entry)>>
       ELSE <<refresh_entry(existing, entry)>>

\* Not the code: every earlier entry of the key is carried over, none is
\* ever dropped.
merge_entry_keep_history(existing, entry) ==
    LET i == existing_lookup(existing, Key(entry))
        earlier == SelectSeq(SubSeq(existing, 1, i - 1),
                             LAMBDA e : Key(e) = Key(entry))
    IN IF i = 0 THEN <<entry>>
       ELSE IF existing[i].extracted_text # entry.extracted_text
       THEN earlier \o <<[existing[i] EXCEPT !.stale = TRUE],
                         refresh_entry(existing, entry)>>
       ELSE earlier \o <<refresh_entry(existing, entry)>>

\* What one iteration of the loop over new_entries appends to updated_entries.
merge_entry(existing, entry) ==
    LET i == existing_lookup(existing, Key(entry))
    IN IF i # 0 /\ existing[i].extracted_text # entry.extracted_text
       THEN <<[existing[i] EXCEPT !.stale = TRUE], refresh_entry(existing, entry)>>
       ELSE <<refresh_entry(existing, entry)>>

RECURSIVE merge_new(_, _)
merge_new(existing, batch) ==
    IF batch = <<>> THEN <<>>
    ELSE merge_entry(existing, Head(batch)) \o merge_new(existing, Tail(batch))

\* A bug: entries whose key the batch did not bring are not carried over.
RECURSIVE mark_unseen_dropped(_, _, _)
mark_unseen_dropped(existing, keys, seen_keys) == <<>>

\* Not the code: only the countries of the batch have their unseen entries
\* marked, the entries of other countries are carried over as they are.
RECURSIVE mark_unseen_own_country(_, _, _)
mark_unseen_own_country(existing, keys, seen_keys) ==
    IF keys = <<>> THEN <<>>
    ELSE LET k == Head(keys)
             rest == mark_unseen_own_country(existing, Tail(keys), seen_keys)
             e == existing[existing_lookup(existing, k)]
         IN IF k \in seen_keys THEN rest
            ELSE IF k[1] \in {s[1] : s \in seen_keys}
            THEN <<[e EXCEPT !.stale = TRUE]>> \o rest
            ELSE <<e>> \o rest

\* The second loop: lookup entries whose key the batch did not bring.
RECURSIVE mark_unseen(_, _, _)
mark_unseen(existing, keys, seen_keys) ==
    IF keys = <<>> THEN <<>>
    ELSE LET k == Head(keys)
             rest == mark_unseen(existing, Tail(keys), seen_keys)
         IN IF k \in seen_keys THEN rest
            ELSE <<[existing[existing_lookup(existing, k)] EXCEPT !.stale = TRUE]>>
                 \o rest

merge_bundles(existing, batch) ==
    LET seen_keys == {Key(e) : e \in Range(batch)}
    IN sort_entries(merge_new(existing, batch)
                    \o mark_unseen(existing, lookup_keys(existing), seen_keys))

\* The batch after merge_bundles has run over it.
RECURSIVE refreshed(_, _)
refreshed(existing, batch) ==
    IF batch = <<>> THEN <<>>
    ELSE <<refresh_entry(existing, Head(batch))>> \o refreshed(existing, Tail(batch))

\* kevin_scrape.write_section_outputs: append and sort, no merge.
kevin_write(existing, batch) == all_entries_sorted(existing \o batch)

\* ------------------------------------------------------------------- main
\* The batch of one run for one section: one entry per PDF link in which
\* the section was found, in the order of the (de-duplicated) link list.
RECURSIVE collect(_, _, _, _, _, _)
collect(script_, country, section, found, ts, url) ==
    IF url > NLinks THEN <<>>
    ELSE (IF url \in DOMAIN found
          THEN <<IF script_ = "kevin_scrape"
                 THEN kevin_build_json_entry(country, section, source_doc_of(url),
                                             url, found[url], ts)
                 ELSE build_json_entry(country, section, source_doc_of(url),
                                       url, found[url], ts)>>
          ELSE <<>>)
         \o collect(script_, country, section, found, ts, url + 1)

\* The extraction results a run can have: the section's text in each link
\* where it was found, which may be none of them.
Inputs(country) ==
    UNION {[S -> Texts] :
             S \in SUBSET {url \in Urls : country_of(url) = country}}

\* The results of a run that reaches write_section_outputs.
FoundInputs(country) == {found \in Inputs(country) : DOMAIN found # {}}

\* A bug: main writes the section whatever the batch.
write_if_entries_always(existing, batch) == merge_bundles(existing, batch)

\* main: `if entries: write_section_outputs(...)`, else only a warning.
write_if_entries(existing, batch) ==
    IF batch = <<>> THEN existing ELSE merge_bundles(existing, batch)

\* The same in kevin_scrape.main.
kevin_write_if_entries(existing, batch) ==
    IF batch = <<>> THEN existing ELSE kevin_write(existing, batch)

\* Two batches built from byte-identical input: the same documents with the
\* same section text, in the same order.
SameInput(a, b) ==
    /\ a # <<>>
    /\ Len(a) = Len(b)
    /\ \A i \in DOMAIN a :
         /\ Key(a[i]) = Key(b[i])
         /\ a[i].extracted_text = b[i].extracted_text

Init ==
    /\ script \in {"scrape_unfccc", "kevin_scrape"}
    /\ bundle = <<>>
    /\ entries = <<>>
    /\ timestamp = 0
    /\ now = 0
    /\ runs = 0
    /\ rerun = FALSE
    /\ pc = <<"idle", "idle">>
    /\ existing_entries = <<<<>>, <<>>>>
    /\ new_entries = <<<<>>, <<>>>>
    /\ serialized = FALSE
    /\ lock = 0
    /\ NoText
    /\ NoScraper

\* The wall clock reaches the next second.  The code only sorts and compares
\* stamps, so what matters between two runs is whether the second has
\* changed, not by how much: one tick after a run stands for any number,
\* and the second of the first run is the origin of the stamps.
Tick ==
    /\ runs > 0
    /\ now = timestamp
    /\ now' = now + 1
    /\ UNCHANGED <<script, bundle, entries, timestamp, runs, rerun>>
    /\ UNCHANGED concVars
    /\ UNCHANGED <<cleanVars, extractVars, scraperVars>>

\* scrape_unfccc.main for one country, the section found in some links or
\* in none.
Run ==
    /\ script = "scrape_unfccc"
    /\ runs < MaxRuns
    /\ \E country \in Countries : \E found \in Inputs(country) :
         LET batch == collect(script, country, AliciaSection, found, now, 1)
         IN /\ bundle' = write_if_entries(bundle, batch)
            /\ entries' = refreshed(bundle, batch)
            /\ rerun' = SameInput(entries, batch)
    /\ timestamp' = now
    /\ runs' = runs + 1
    /\ UNCHANGED <<script, now>>
    /\ UNCHANGED concVars
    /\ UNCHANGED <<cleanVars, extractVars, scraperVars>>

\* kevin_scrape.main for one country.
KevinRun ==
    /\ script = "kevin_scrape"
    /\ runs < MaxKevinRuns
    /\ \E country \in Countries : \E found \in Inputs(country) :
         LET batch == collect(script, country, KevinSection, found, now, 1)
         IN /\ bundle' = kevin_write_if_entries(bundle, batch)
            /\ entries' = batch
            /\ rerun' = SameInput(entries, batch)
    /\ timestamp' = now
    /\ runs' = runs + 1
    /\ UNCHANGED <<script, now>>
    /\ UNCHANGED concVars
    /\ UNCHANGED <<cleanVars, extractVars, scraperVars>>

Next == Tick \/ Run \/ KevinRun

Spec == Init /\ [][Next]_vars

\* ------------------------------------------------- two concurrent writers
\* Two runs of main against the same section's bundle, which starts out
\* absent (merge_bundles then takes the existing list as empty).  A run takes its
\* timestamp and builds its batch (WorkerStart), loads the bundle file
\* (WorkerLoad, the json.load of the read-modify-write) and later dumps the
\* merged list over the file (WorkerWrite).  Nothing in the code orders the
\* steps of two runs; when the caller serializes them (serialized), a run
\* loads only while no other run is between its load and its write.
Workers == {1, 2}

\* External serialization of the writers of one section (a mutex).
CanEnter(w) == serialized => lock = 0

InitConc ==
    /\ script \in {"scrape_unfccc", "kevin_scrape"}
    /\ bundle = <<>>
    /\ entries = <<>>
    /\ timestamp = 0
    /\ now = 0
    /\ runs = 0
    /\ rerun = FALSE
    /\ pc = <<"idle", "idle">>
    /\ existing_entries = <<<<>>, <<>>>>
    /\ new_entries = <<<<>>, <<>>>>
    /\ serialized \in BOOLEAN
    /\ lock = 0
    /\ NoText
    /\ NoScraper

\* The wall clock reaches the next second between the starts of the two runs
\* (a tick at any other moment changes no stamp and no order of stamps).
TickConc ==
    /\ now = 0
    /\ \E w \in Workers : pc[w] = "idle"
    /\ \E w \in Workers : pc[w] # "idle"
    /\ now' = now + 1
    /\ UNCHANGED <<script, bundle, entries, timestamp, runs, rerun>>
    /\ UNCHANGED concVars
    /\ UNCHANGED <<cleanVars, extractVars, scraperVars>>

WorkerStart(w) ==
    /\ pc[w] = "idle"
    /\ \E country \in Countries : \E found \in FoundInputs(country) :
         new_entries' = [new_entries EXCEPT ![w] =
             collect(script, country,
                     IF script = "kevin_scrape" THEN KevinSection
                     ELSE AliciaSection, found, now, 1)]
    /\ pc' = [pc EXCEPT ![w] = "built"]
    /\ UNCHANGED <<existing_entries, serialized, lock>>
    /\ UNCHANGED seqVars
    /\ UNCHANGED <<cleanVars, extractVars, scraperVars>>

WorkerLoad(w) ==
    /\ pc[w] = "built"
    /\ CanEnter(w)
    /\ existing_entries' = [existing_entries EXCEPT ![w] = bundle]
    /\ lock' = IF serialized THEN w ELSE lock
    /\ pc' = [pc EXCEPT ![w] = "loaded"]
    /\ UNCHANGED <<new_entries, serialized>>
    /\ UNCHANGED seqVars
    /\ UNCHANGED <<cleanVars, extractVars, scraperVars>>

WorkerWrite(w) ==
    /\ pc[w] = "loaded"
    /\ bundle' = IF script = "kevin_scrape"
                 THEN kevin_write(existing_entries[w], new_entries[w])
                 ELSE merge_bundles(existing_entries[w], new_entries[w])
    /\ new_entries' = [new_entries EXCEPT ![w] =
                          IF script = "kevin_scrape" THEN new_entries[w]
                          ELSE refreshed(existing_entries[w], new_entries[w])]
    /\ lock' = IF serialized THEN 0 ELSE lock
    /\ pc' = [pc EXCEPT ![w] = "done"]
    /\ UNCHANGED <<existing_entries, serialized>>
    /\ UNCHANGED <<script, entries, timestamp, now, runs, rerun>>
    /\ UNCHANGED <<cleanVars, extractVars, scraperVars>>

NextConc ==
    \/ TickConc
    \/ \E w \in Workers : WorkerStart(w)
    \/ \E w \in Workers : WorkerLoad(w)
    \/ \E w \in Workers : WorkerWrite(w)

SpecConc == InitConc /\ [][NextConc]_vars


\* ==================================================== the text normalizer
\* clean_extracted_text, the same function in both copies of the scraper.
\* A text is a sequence of characters; the alphabet has one character of
\* each class the function's patterns tell apart.
MaxTextLen == 4
MaxPasses == 2

NL == "\n"
CR == "\r"
SP == " "
TAB == "\t"
Blank == {SP, TAB}
Whitespace == {SP, TAB, NL, CR}

\* A title is the phrase a pattern of SECTION_DEFINITIONS looks for, a unit
\* that no pattern splits; the other phrases are running text.
Titles == {"Institutional framework", "Institutional arrangements",
           "Institutional arrangements for climate", "Institutional setup",
           "National policy framework", "National strategy for climate",
           "Policy and regulatory framework",
           "National greenhouse gas inventory", "National GHG inventory",
           "Greenhouse gas emissions", "Vulnerability and adaptation",
           "Climate change impacts and adaptation", "Adaptation actions"}
Phrases == Titles \cup {"Text A", "Next Heading"}
RomanLetters == {"i"}
Letters == RomanLetters \cup {"a"} \cup Phrases
WordChars == Letters

SeqsUpTo(S, n) == UNION {[1..k -> S] : k \in 0..n}

\* The characters of t at the positions K, in their order.
RECURSIVE PickFrom(_, _, _)
PickFrom(t, K, i) ==
    IF i > Len(t) THEN <<>>
    ELSE IF i \in K THEN <<t[i]>> \o PickFrom(t, K, i + 1)
    ELSE PickFrom(t, K, i + 1)

Pick(t, K) == PickFrom(t, K, 1)

\* text.replace("\r", "\n")
replace_cr(t) == [i \in DOMAIN t |-> IF t[i] = CR THEN NL ELSE t[i]]

\* re.sub(r"-\n(?=\w)", "", text)
fix_hyphenated(t) ==
    LET M == {i \in DOMAIN t : /\ i + 2 <= Len(t)
                               /\ t[i] = "-"
                               /\ t[i + 1] = NL
                               /\ t[i + 2] \in WordChars}
    IN Pick(t, {i \in DOMAIN t : i \notin M /\ (i - 1) \notin M})

\* re.sub(r"[ \t]+\n", "\n", text)
strip_line_ends(t) ==
    LET beforeNL(i) == \E j \in DOMAIN t :
                          /\ j > i
                          /\ t[j] = NL
                          /\ \A k \in i..(j - 1) : t[k] \in Blank
    IN Pick(t, {i \in DOMAIN t : ~beforeNL(i)})

\* re.sub(r"\n{3,}", "\n\n", text)
collapse_newlines(t) ==
    Pick(t, {i \in DOMAIN t :
               ~(i >= 3 /\ t[i] = NL /\ t[i - 1] = NL /\ t[i - 2] = NL)})

\* re.sub(r"[ \t]{2,}", " ", text)
collapse_blanks(t) ==
    LET inRun(i) == i \in DOMAIN t /\ t[i] \in Blank
        u == [i \in DOMAIN t |->
                IF inRun(i) /\ inRun(i + 1) THEN SP ELSE t[i]]
    IN Pick(u, {i \in DOMAIN t : ~(inRun(i) /\ inRun(i - 1))})

\* str.strip()
strip(t) ==
    LET solid == {i \in DOMAIN t : t[i] \notin Whitespace}
    IN Pick(t, {i \in DOMAIN t : /\ \E j \in solid : j <= i
                                 /\ \E j \in solid : j >= i})

clean_extracted_text(t) ==
    strip(collapse_blanks(collapse_newlines(
        strip_line_ends(fix_hyphenated(replace_cr(t))))))

\* The normalizer alone, applied again to its own output.
CleanAlphabet == {"-", NL, CR, SP, TAB, "a"}

NoBundle ==
    /\ script = "scrape_unfccc"
    /\ bundle = <<>>
    /\ entries = <<>>
    /\ timestamp = 0
    /\ now = 0
    /\ runs = 0
    /\ rerun = FALSE
    /\ pc = <<"idle", "idle">>
    /\ existing_entries = <<<<>>, <<>>>>
    /\ new_entries = <<<<>>, <<>>>>
    /\ serialized = FALSE
    /\ lock = 0

InitClean ==
    /\ NoBundle
    /\ NoScraper
    /\ txt \in SeqsUpTo(CleanAlphabet, MaxTextLen)
    /\ passes = 0
    /\ raw_text = <<>>
    /\ combined_text = <<>>
    /\ section_definitions = <<>>
    /\ section_spans = <<>>
    /\ resolved = <<>>
    /\ extracted = <<>>
    /\ stage = "idle"

Clean ==
    /\ passes < MaxPasses
    /\ txt' = clean_extracted_text(txt)
    /\ passes' = passes + 1
    /\ UNCHANGED <<seqVars, concVars, extractVars, scraperVars>>

NextClean == Clean

SpecClean == InitClean /\ [][NextClean]_vars


\* ================================================== the section extractor
\* extract_sections_from_pdf, the same in both copies of the scraper.
\* Offsets are Python's: the character at offset p of t is t[p + 1], and
\* t[a:b] is Slice(t, a, b).
MaxDocLen == 5

Slice(t, a, b) == SubSeq(t, a + 1, b)
Min(S) == CHOOSE x \in S : \A y \in S : x <= y
Max(S) == CHOOSE x \in S : \A y \in S : x >= y

\* The three kinds of pattern of SECTION_DEFINITIONS, for a title T:
\*   roman     ^\s*[ivxlcdm]+\.\s*T[^\n]*     (headings, MULTILINE)
\*   line      ^\s*T[^\n]*                    (headings, MULTILINE)
\*   fallback  (T.*?)(?=\n[A-Z][^\n]+|$)      (patterns, DOTALL)
Roman(T) == [kind |-> "roman", title |-> T]
Line(T) == [kind |-> "line", title |-> T]
Fallback(T) == [kind |-> "fallback", title |-> T]
\* A pattern that does not compile, such as "(": re.search raises re.error.
Invalid == [kind |-> "invalid", title |-> "("]

SectionNames == {"Institutional framework for climate action",
                 "National policy framework",
                 "Institutional set-up",
                 "Draft patterns",
                 "GHG Inventory Module",
                 "Adaptation and Vulnerability Module"}

\* The definitions of scrape_unfccc.py and of kevin_scrape.py, and one more
\* that a caller's configuration may hold: a section that lists a heading of
\* another section, and a section whose lists begin with a pattern that
\* does not compile.
SectionDef(section) ==
    CASE section = "Institutional framework for climate action" ->
           [headings |-> <<Roman("Institutional framework"),
                           Line("Institutional framework"),
                           Line("Institutional arrangements")>>,
            patterns |-> <<Fallback("Institutional framework"),
                           Fallback("Institutional arrangements for climate"),
                           Fallback("Institutional setup")>>]
      [] section = "National policy framework" ->
           [headings |-> <<Roman("National policy framework"),
                           Line("National policy framework"),
                           Line("Policy and regulatory framework")>>,
            patterns |-> <<Fallback("National policy framework"),
                           Fallback("National strategy for climate"),
                           Fallback("Policy and regulatory framework")>>]
      [] section = "Institutional set-up" ->
           [headings |-> <<Line("Institutional framework")>>,
            patterns |-> <<Fallback("Institutional setup")>>]
      [] section = "Draft patterns" ->
           [headings |-> <<Invalid, Line("Institutional framework")>>,
            patterns |-> <<Invalid, Fallback("Policy and regulatory framework")>>]
      [] section = "GHG Inventory Module" ->
           [headings |-> <<Roman("National greenhouse gas inventory"),
                           Line("National greenhouse gas inventory"),
                           Line("National GHG inventory"),
                           Line("Greenhouse gas emissions")>>,
            patterns |-> <<Fallback("National greenhouse gas inventory"),
                           Fallback("Greenhouse gas emissions")>>]
      [] section = "Adaptation and Vulnerability Module" ->
           [headings |-> <<Roman("Vulnerability and adaptation"),
                           Line("Vulnerability and adaptation"),
                           Line("Climate change impacts and adaptation"),
                           Line("Adaptation actions")>>,
            patterns |-> <<Fallback("Vulnerability and adaptation"),
                           Fallback("Climate change impacts and adaptation"),
                           Fallback("Adaptation actions")>>]

\* ^ under MULTILINE: the start of the text and the offset after a newline.
LineStarts(t) == {p \in 0..Len(t) : p = 0 \/ t[p] = NL}

\* \s* before a character that is no whitespace: all the whitespace at p.
SkipWs(t, p) ==
    Min({q \in p..Len(t) : q = Len(t) \/ t[q + 1] \notin Whitespace})

\* [ivxlcdm]+ before a dot: all the roman letters at p.
SkipRoman(t, p) ==
    Min({q \in p..Len(t) : q = Len(t) \/ t[q + 1] \notin RomanLetters})

\* [^\n]*: the rest of the line
LineEnd(t, p) == Min({e \in p..Len(t) : e = Len(t) \/ t[e + 1] = NL})

\* The offset of the title when `^\s*T` matches at p, else -1.
LineTitleAt(t, p, T) ==
    LET q == SkipWs(t, p)
    IN IF q < Len(t) /\ t[q + 1] = T THEN q ELSE -1

\* The offset of the title when `^\s*[ivxlcdm]+\.\s*T` matches at p, else -1.
RomanTitleAt(t, p, T) ==
    LET q == SkipWs(t, p)
        r == SkipRoman(t, q)
    IN IF r > q /\ r < Len(t) /\ t[r + 1] = "."
       THEN LineTitleAt(t, r + 1, T)
       ELSE -1

\* (?=\n[A-Z][^\n]+|$) at offset e
SectionBreakAt(t, e) ==
    \/ e = Len(t)
    \/ e = Len(t) - 1 /\ t[Len(t)] = NL
    \/ /\ e + 2 <= Len(t)
       /\ t[e + 1] = NL
       /\ t[e + 2] \in Letters
       /\ \/ t[e + 2] \in Phrases
          \/ e + 3 <= Len(t) /\ t[e + 3] # NL

\* re.search(pattern, combined_text, flags): the leftmost match, as a set
\* that is empty when there is none.
search(pattern, t) ==
    IF pattern.kind = "invalid" THEN {}
    ELSE IF pattern.kind = "fallback"
    THEN LET S == {p \in 0..(Len(t) - 1) : t[p + 1] = pattern.title}
         IN IF S = {} THEN {}
            ELSE LET p == Min(S)
                 IN {<<p, Min({e \in (p + 1)..Len(t) : SectionBreakAt(t, e)})>>}
    ELSE LET at(p) == IF pattern.kind = "roman"
                      THEN RomanTitleAt(t, p, pattern.title)
                      ELSE LineTitleAt(t, p, pattern.title)
             S == {p \in LineStarts(t) : at(p) # -1}
         IN IF S = {} THEN {}
            ELSE LET p == Min(S)
                 IN {<<p, LineEnd(t, at(p) + 1)>>}

\* A bug: the match that starts first in the text, whatever its pattern.
first_match_earliest(patterns, t) ==
    LET hits == UNION {search(patterns[k], t) : k \in DOMAIN patterns}
    IN IF hits = {} THEN {}
       ELSE {CHOOSE h \in hits : \A g \in hits : h[1] < g[1] \/ (h[1] = g[1] /\ h[2] <= g[2])}

\* A bug: re.error is not caught, the patterns behind one that does not
\* compile are never tried.
first_match_raise(patterns, t) ==
    LET bad == {k \in DOMAIN patterns : patterns[k].kind = "invalid"}
        K == {k \in DOMAIN patterns : /\ search(patterns[k], t) # {}
                                       /\ \A b \in bad : k < b}
    IN IF K = {} THEN {} ELSE search(patterns[Min(K)], t)

\* The match of the first pattern of the list that matches.
first_match(patterns, t) ==
    LET K == {k \in DOMAIN patterns : search(patterns[k], t) # {}}
    IN IF K = {} THEN {} ELSE search(patterns[Min(K)], t)

\* The seed span of one section: headings first, then the fallback patterns.
locate(section, t) ==
    LET heading_match == first_match(SectionDef(section).headings, t)
    IN IF heading_match # {} THEN heading_match
       ELSE first_match(SectionDef(section).patterns, t)

\* A bug: a section that is not found ends the extraction with nothing.
locate_all_abort(config, t) ==
    IF \E i \in DOMAIN config : locate(config[i], t) = {} THEN <<>>
    ELSE [i \in DOMAIN config |->
            LET h == CHOOSE h \in locate(config[i], t) : TRUE
            IN [section |-> config[i], start |-> h[1], end |-> h[2]]]

\* section_spans after the loop over the configuration, in insertion order.
locate_all(config, t) ==
    LET hit == [i \in DOMAIN config |-> locate(config[i], t)]
        span(i) == CHOOSE h \in hit[i] : TRUE
    IN Pick([i \in DOMAIN config |->
                IF hit[i] = {} THEN [section |-> config[i]]
                ELSE [section |-> config[i], start |-> span(i)[1],
                      end |-> span(i)[2]]],
            {i \in DOMAIN config : hit[i] # {}})

\* sorted(section_spans.items(), key=start): a stable sort
ordered_sections(spans) ==
    LET rank(i) == Cardinality({j \in DOMAIN spans :
                      \/ spans[j].start < spans[i].start
                      \/ spans[j].start = spans[i].start /\ j <= i})
    IN [k \in DOMAIN spans |-> spans[CHOOSE i \in DOMAIN spans : rank(i) = k]]

\* re.match(r"^\s*[ivxlcdm]+\.\s*$", line): a bare roman-numeral label
is_roman_label(line) ==
    LET solid == {i \in DOMAIN line : line[i] \notin Whitespace}
    IN /\ solid # {}
       /\ line[Max(solid)] = "."
       /\ Max(solid) > Min(solid)
       /\ \A k \in Min(solid)..(Max(solid) - 1) : line[k] \in RomanLetters
       /\ \A k \in DOMAIN line : k > Max(solid) /\ k < Len(line) => line[k] # NL

\* combined_text.rfind("\n", 0, start)
previous_newline(t, start) ==
    LET S == {j \in 0..(start - 1) : t[j + 1] = NL}
    IN IF S = {} THEN -1 ELSE Max(S)

\* A bug: the label is never looked for.
pulled_start_never(t, start) == start

\* The start of the range: the seed start, or the start of its line when
\* what precedes it on the line is a roman-numeral label.
pulled_start(t, start) ==
    LET nl == previous_newline(t, start)
    IN IF nl # -1 /\ is_roman_label(Slice(t, nl + 1, start))
       THEN nl + 1
       ELSE start

\* A bug: the range of a section ends where its seed span ends.
range_end_seed(ordered, index, t) == ordered[index].end

\* next_start
range_end(ordered, index, t) ==
    IF index + 1 <= Len(ordered) THEN ordered[index + 1].start ELSE Len(t)

\* The ranges of the ordered sections and their stripped texts.
resolve(spans, t) ==
    LET ordered == ordered_sections(spans)
    IN [index \in DOMAIN ordered |->
          LET start == pulled_start(t, ordered[index].start)
              next_start == range_end(ordered, index, t)
          IN [section |-> ordered[index].section,
              seed_start |-> ordered[index].start,
              seed_end |-> ordered[index].end,
              start |-> start,
              next_start |-> next_start,
              section_text |-> strip(Slice(t, start, next_start))]]

\* A bug: a section is returned whatever its text.
extracted_of_all(res) ==
    [section \in {res[i].section : i \in DOMAIN res} |->
        res[CHOOSE i \in DOMAIN res : res[i].section = section].section_text]

\* The mapping returned: the sections whose text is not empty.
extracted_of(res) ==
    LET kept == {i \in DOMAIN res : res[i].section_text # <<>>}
    IN [section \in {res[i].section : i \in kept} |->
          res[CHOOSE i \in kept : res[i].section = section].section_text]

extract_sections_from_pdf(config, t) ==
    extracted_of(resolve(locate_all(config, t), t))

\* The inputs: every text of the alphabet up to MaxDocLen, and the document
\* of the worked example; the configurations of the two scrapers, and those
\* made of scrape_unfccc's two sections and the third one, in every order.
DocAlphabet == {NL, "i", ".", "Institutional framework",
                "Policy and regulatory framework"}

ExampleDoc == <<".", NL, "i", ".", SP, "Adaptation actions", NL, "Text A",
                NL, NL, "i", ".", SP, "Next Heading", NL, ".">>

RawDocs == SeqsUpTo(DocAlphabet, MaxDocLen) \cup {ExampleDoc}

AliciaConfig == <<"Institutional framework for climate action",
                  "National policy framework">>
KevinConfig == <<"GHG Inventory Module", "Adaptation and Vulnerability Module">>

\* The configurations that list the sections of config in any order.
Reorderings(config) ==
    {c \in [DOMAIN config -> Range(config)] :
        \A i, j \in DOMAIN c : c[i] = c[j] => i = j}

Configs ==
    {AliciaConfig, <<AliciaConfig[2], AliciaConfig[1]>>, KevinConfig,
     <<AliciaConfig[1], AliciaConfig[2], "Institutional set-up">>,
     <<"Institutional set-up", AliciaConfig[2], AliciaConfig[1]>>,
     <<"Draft patterns", AliciaConfig[2]>>}

InitExtract ==
    /\ NoBundle
    /\ NoScraper
    /\ txt = <<>>
    /\ passes = 0
    /\ raw_text \in RawDocs
    /\ combined_text = <<>>
    /\ section_definitions = <<>>
    /\ section_spans = <<>>
    /\ resolved = <<>>
    /\ extracted = <<>>
    /\ stage = "open"

ExtractSections ==
    /\ stage = "open"
    /\ \E config \in Configs :
         /\ section_definitions' = config
         /\ combined_text' = clean_extracted_text(raw_text)
         /\ section_spans' = locate_all(config, combined_text')
         /\ resolved' = resolve(section_spans', combined_text')
         /\ extracted' = extracted_of(resolved')
    /\ stage' = "done"
    /\ UNCHANGED <<raw_text, seqVars, concVars, cleanVars, scraperVars>>

NextExtract == ExtractSections

SpecExtract == InitExtract /\ [][NextExtract]_vars

\* =================================================== pdf_scraper, keywords
\* extract_sections_by_keywords of Ass8-9/pdf_scraper.py, for one section.
\* A line is what the pass reads of it: whether it holds one of the section's
\* keywords.  Line indices are Python's (from 0).  An emitted line is <<i>>,
\* its index in the document; the blank line appended after each window is
\* <<>>.
MaxLines == 7

\* `if i - prev <= 2`
ClusterGap == 2
\* `max(start_idx - 5, 0)`, `min(end_idx + 5, len(lines) - 1)`
ContextLines == 5

RECURSIVE Ascending(_)
Ascending(S) ==
    IF S = {} THEN <<>>
    ELSE <<Min(S)>> \o Ascending(S \ {Min(S)})

match_indices(lines) == Ascending({i \in 0..(Len(lines) - 1) : lines[i + 1]})

RECURSIVE cluster_from(_, _, _)
cluster_from(first, prev, rest) ==
    IF rest = <<>> THEN <<<<first, prev>>>>
    ELSE IF Head(rest) - prev <= ClusterGap
         THEN cluster_from(first, Head(rest), Tail(rest))
         ELSE <<<<first, prev>>>>
              \o cluster_from(Head(rest), Head(rest), Tail(rest))

cluster_indices(matched) ==
    IF matched = <<>> THEN <<>>
    ELSE cluster_from(matched[1], matched[1], Tail(matched))

expand(cl, n) ==
    <<Max({cl[1] - ContextLines, 0}), Min({cl[2] + ContextLines, n - 1})>>

\* The windows emitted: a window is skipped when the very same span was
\* emitted before (`if span in seen_spans: continue`).
RECURSIVE emitted_spans(_, _, _)
emitted_spans(cls, n, seen) ==
    IF cls = <<>> THEN <<>>
    ELSE LET w == expand(Head(cls), n)
         IN IF w \in seen THEN emitted_spans(Tail(cls), n, seen)
            ELSE <<w>> \o emitted_spans(Tail(cls), n, seen \cup {w})

RECURSIVE emitted_lines(_)
emitted_lines(spans) ==
    IF spans = <<>> THEN <<>>
    ELSE [k \in 1..(spans[1][2] - spans[1][1] + 1) |-> <<spans[1][1] + k - 1>>]
         \o <<<<>>>> \o emitted_lines(Tail(spans))

InitKeywords ==
    /\ NoBundle
    /\ NoText
    /\ NoRanges
    /\ NoStore
    /\ NoLoop
    /\ kw_lines \in SeqsUpTo(BOOLEAN, MaxLines)
    /\ matched_indices = <<>>
    /\ clusters = <<>>
    /\ seen_spans = <<>>
    /\ context_lines = <<>>
    /\ kw_stage = "open"

ExtractByKeywords ==
    /\ kw_stage = "open"
    /\ matched_indices' = match_indices(kw_lines)
    /\ clusters' = cluster_indices(matched_indices')
    /\ seen_spans' = emitted_spans(clusters', Len(kw_lines), {})
    /\ context_lines' = emitted_lines(seen_spans')
    /\ kw_stage' = "done"
    /\ UNCHANGED <<kw_lines, seqVars, concVars, cleanVars, extractVars,
                   rangeVars, storeVars, loopVars>>

NextKeywords == ExtractByKeywords

SpecKeywords == InitKeywords /\ [][NextKeywords]_vars

\* ==================================================== pdf_scraper, headings
\* find_section_ranges of Ass8-9/pdf_scraper.py.  A line is what the search
\* reads of it: the set of section names that occur in it (re.escape(name),
\* IGNORECASE, searched anywhere in the line).
MaxHeadingLines == 3

SECTION_NAMES ==
    <<"NDC Tracking Module", "Support Needed and Received Module",
      "Other baseline initiatives">>

\* starts: the first line index of each section name that occurs at all.
first_occurrences(lines) ==
    LET at(s) == {i \in 0..(Len(lines) - 1) : s \in lines[i + 1]}
    IN [s \in {x \in Range(SECTION_NAMES) : at(x) # {}} |-> Min(at(s))]

\* The names found, in the order of SECTION_NAMES.
sorted_sections(first) ==
    SelectSeq(SECTION_NAMES, LAMBDA s : s \in DOMAIN first)

find_section_ranges(lines) ==
    LET first == first_occurrences(lines)
        order == sorted_sections(first)
        idx(s) == CHOOSE i \in DOMAIN order : order[i] = s
    IN [s \in DOMAIN first |->
          <<first[s],
            IF idx(s) + 1 <= Len(order) THEN first[order[idx(s) + 1]]
            ELSE Len(lines)>>]

InitRanges ==
    /\ NoBundle
    /\ NoText
    /\ NoKeywords
    /\ NoStore
    /\ NoLoop
    /\ doc_lines \in SeqsUpTo(SUBSET Range(SECTION_NAMES), MaxHeadingLines)
    /\ starts = <<>>
    /\ ranges = <<>>
    /\ ranges_stage = "open"

FindSectionRanges ==
    /\ ranges_stage = "open"
    /\ starts' = first_occurrences(doc_lines)
    /\ ranges' = find_section_ranges(doc_lines)
    /\ ranges_stage' = "done"
    /\ UNCHANGED <<doc_lines, seqVars, concVars, cleanVars, extractVars,
                   keywordVars, storeVars, loopVars>>

NextRanges == FindSectionRanges

SpecRanges == InitRanges /\ [][NextRanges]_vars

\* ======================================================= pdf_scraper, store
\* SupabaseClient.upsert_country_sections of Ass8-9/pdf_scraper.py on the
\* row of one country.  record is <<>> while the table has no row of the
\* country, else the value of its sections column: [sections |-> a list of
\* [name, documents]], documents a list of [doc_type, extracted_text].  Calls
\* are sequential: each reads the row the call before it wrote.  The
\* conversion of the old format (a mapping section -> doc_type -> text) is
\* left out: upsert_country_sections never writes that format, so no row
\* that starts absent ever has it.
MaxUpserts == 3

StoreSections == {SECTION_NAMES[1], SECTION_NAMES[2]}
DocTypes == {"BUR1", "BUR2"}
StoreTexts == {"", "text A", "text B"}

\* new_sections_for_doc: a dict, as the list of its items in its order.
SectionDicts ==
    {d \in SeqsUpTo(StoreSections \X StoreTexts, Cardinality(StoreSections)) :
       \A i, j \in DOMAIN d : d[i][1] = d[j][1] => i = j}

set_document_append(documents, doc_type, text) ==
    Append(documents, [doc_type |-> doc_type, extracted_text |-> text])

\* `for doc in section_obj["documents"]`: the first document of the doc_type
\* gets the text, a new document is appended when there is none.
set_document(documents, doc_type, text) ==
    LET have == {j \in DOMAIN documents : documents[j].doc_type = doc_type}
    IN IF have # {}
       THEN [documents EXCEPT ![Min(have)].extracted_text = text]
       ELSE Append(documents,
                   [doc_type |-> doc_type, extracted_text |-> text])

\* One iteration of `for section_name, text in new_sections_for_doc.items()`.
merge_section(sections_list, section_name, text, doc_type) ==
    IF text = "" THEN sections_list
    ELSE LET have == {i \in DOMAIN sections_list :
                        sections_list[i].name = section_name}
             list == IF have # {} THEN sections_list
                     ELSE Append(sections_list,
                                 [name |-> section_name, documents |-> <<>>])
             at == IF have # {} THEN Min(have) ELSE Len(list)
         IN [list EXCEPT ![at].documents =
                           set_document(list[at].documents, doc_type, text)]

RECURSIVE merge_sections(_, _, _)
merge_sections(sections_list, items, doc_type) ==
    IF items = <<>> THEN sections_list
    ELSE merge_sections(
           merge_section(sections_list, items[1][1], items[1][2], doc_type),
           Tail(items), doc_type)

\* The sections column after the call: PATCH of the existing row, or POST of
\* a new one.
upsert_country_sections(existing, new_sections_for_doc, doc_type) ==
    LET sections_list == IF existing = <<>> THEN <<>> ELSE existing.sections
    IN [sections |->
          merge_sections(sections_list, new_sections_for_doc, doc_type)]

InitStore ==
    /\ NoBundle
    /\ NoText
    /\ NoKeywords
    /\ NoRanges
    /\ NoLoop
    /\ record = <<>>
    /\ upsert_call = <<>>
    /\ upserts = 0

Upsert ==
    /\ upserts < MaxUpserts
    /\ \E new_sections_for_doc \in SectionDicts, doc_type \in DocTypes :
         /\ record' = upsert_country_sections(record, new_sections_for_doc,
                                              doc_type)
         /\ upsert_call' = [existing |-> record,
                            new_sections_for_doc |-> new_sections_for_doc,
                            doc_type |-> doc_type]
    /\ upserts' = upserts + 1
    /\ UNCHANGED <<seqVars, concVars, cleanVars, extractVars,
                   keywordVars, rangeVars, loopVars>>

NextStore == Upsert

SpecStore == InitStore /\ [][NextStore]_vars

\* ============================================================ quality loop
\* The drafting loop of run() in gef_pif_multiagent_pro_qc2/src/main.py with
\* aggregate_confidence, adjust_confidence and should_continue of
\* agents/accuracy_agent.py.  The writer and the fact-checker are language
\* models: what they return is an input of each step.  Scores are held in
\* tenths of a point (the functions round to one decimal): 905 is 90.5.
\* None is <<>>, a checker_confidence that is set is <<score>>.
MaxImprovementPasses == 3

None == <<>>

\* confidence_score of a draft, confidence_estimate of a fact-check and
\* --confidence-target, in whole points.
WriterScores == {0, 70}
CheckerScores == {0, 60, 100}
Targets == {0, 90, 100}
IssueCounts == 0..1

Tenths(points) == 10 * points

_clamp01(x) == IF x < 0 THEN 0 ELSE IF x > 1000 THEN 1000 ELSE x

\* round(v, 1) of a v given in hundredths; no v here ends in 5.
Round1(hundredths) == (hundredths + 5) \div 10

aggregate_confidence(writer_score, checker_score) ==
    LET w == _clamp01(writer_score)
        c == _clamp01(checker_score)
    IN IF w = 0 /\ c > 0 THEN Round1(9 * c)
       ELSE Round1(4 * w + 6 * c)

adjust_confidence(base, issues_count, residuals_count) ==
    LET issues == Max({issues_count, 0})
        residuals == Max({residuals_count, 0})
        penalty == issues * 2 + residuals * 3
    IN Max({_clamp01(base) - Tenths(penalty), 0})

should_continue(current_score, target, pass_number_, max_passes) ==
    IF current_score >= target THEN FALSE
    ELSE pass_number_ < max_passes

\* The entry appended for a draft: its checker_confidence is None.
log_entry(pass_number_, writer_conf) ==
    [pass |-> pass_number_, writer_confidence |-> writer_conf,
     checker_confidence |-> None,
     aggregated_confidence_adjusted |-> writer_conf]

\* run() up to the first `while True`: the initial draft is written and
\* logged.
InitLoop ==
    /\ NoBundle
    /\ NoText
    /\ NoKeywords
    /\ NoRanges
    /\ NoStore
    /\ max_improvement_passes \in 1..MaxImprovementPasses
    /\ confidence_target \in {Tenths(t) : t \in Targets}
    /\ pass_number = 1
    /\ \E writer_conf \in {Tenths(w) : w \in WriterScores} :
         /\ quality_log = <<log_entry(1, writer_conf)>>
         /\ overall_conf = writer_conf
    /\ loop_pc = "fact_check"

\* From `fc = await fact_check_sections(...)` to the test of should_continue.
FactCheck ==
    /\ loop_pc = "fact_check"
    /\ \E fc_conf \in {Tenths(c) : c \in CheckerScores},
          issues_count \in IssueCounts, residuals_count \in IssueCounts :
         LET overall_raw == aggregate_confidence(overall_conf, fc_conf)
             overall_adj == adjust_confidence(overall_raw, issues_count,
                                              residuals_count)
         IN /\ quality_log' =
                 [quality_log EXCEPT
                    ![Len(quality_log)].checker_confidence = <<fc_conf>>,
                    ![Len(quality_log)].aggregated_confidence_adjusted =
                        overall_adj]
            /\ overall_conf' = overall_adj
            /\ loop_pc' = IF should_continue(overall_adj, confidence_target,
                                             pass_number,
                                             max_improvement_passes)
                          THEN "draft" ELSE "render"
    /\ UNCHANGED <<pass_number, max_improvement_passes, confidence_target>>
    /\ UNCHANGED <<seqVars, concVars, cleanVars, extractVars,
                   keywordVars, rangeVars, storeVars>>

\* From `pass_number += 1` to the end of the loop body.
Redraft ==
    /\ loop_pc = "draft"
    /\ pass_number' = pass_number + 1
    /\ \E writer_conf \in {Tenths(w) : w \in WriterScores} :
         quality_log' = Append(quality_log,
                               log_entry(pass_number', writer_conf))
    /\ loop_pc' = IF pass_number' >= max_improvement_passes
                  THEN "render" ELSE "fact_check"
    /\ UNCHANGED <<overall_conf, max_improvement_passes, confidence_target>>
    /\ UNCHANGED <<seqVars, concVars, cleanVars, extractVars,
                   keywordVars, rangeVars, storeVars>>

NextLoop == FactCheck \/ Redraft

SpecLoop == InitLoop /\ [][NextLoop]_vars

\* ------------------------------------------------------------------ claims
Alicia == script = "scrape_unfccc"
Kevin == script = "kevin_scrape"

\* The step is a synchronization (a run of main that has entries to write),
\* not a clock tick and not a run that found nothing.
Synchronized == runs' = runs + 1 /\ entries' # <<>>

KeysOf(s) == {Key(e) : e \in Range(s)}
OfKey(s, k) == {i \in DOMAIN s : Key(s[i]) = k}

\* The latest entry a bundle holds for a key: the last one in bundle order.
Latest(s, k) == s[CHOOSE i \in OfKey(s, k) : \A j \in OfKey(s, k) : j <= i]

\* e is still there: same key, text and stamp; stale may only have become true.
Kept(s, e) ==
    \E x \in Range(s) :
        /\ Key(x) = Key(e)
        /\ x.extracted_text = e.extracted_text
        /\ x.created_utc = e.created_utc
        /\ (e.stale => x.stale)

\* C1: no synchronization removes an entry: every entry of the bundle before
\* a synchronization is in the bundle after it, with the same key, text and
\* created_utc, stale at most having become true.
C1_NeverRemoved ==
    [][(Alicia /\ Synchronized) => \A e \in Range(bundle) : Kept(bundle', e)]_vars

\* C2: every reachable bundle has at most one non-stale entry per identity key.
C2_OneNonStalePerKey ==
    Alicia =>
        \A i, j \in DOMAIN bundle :
            (i # j /\ Key(bundle[i]) = Key(bundle[j]) /\ ~bundle[i].stale)
                => bundle[j].stale

\* C2 witness: a key with a stale entry next to its non-stale successor.
C2_Witness ==
    /\ Alicia
    /\ \E i, j \in DOMAIN bundle :
         /\ i # j
         /\ Key(bundle[i]) = Key(bundle[j])
         /\ bundle[i].stale
         /\ ~bundle[j].stale

\* C3: synchronizing the same input a second time adds no entry, marks no
\* further entry stale, and leaves the non-stale entry of every key of the
\* batch with its text and created_utc.
C3_RerunNoNewDiff ==
    [][(Alicia /\ Synchronized /\ rerun') =>
          /\ Len(bundle') <= Len(bundle)
          /\ \A x \in Range(bundle') : x \in Range(bundle)
          /\ \A x \in Range(bundle) :
                (~x.stale /\ Key(x) \in KeysOf(entries')) => x \in Range(bundle')
      ]_vars

\* C3 witness: a second run on the same input, a second later than the stamp
\* its entry carries, on top of a bundle that also holds a stale entry.
C3_Witness ==
    /\ Alicia
    /\ rerun
    /\ \E e \in Range(entries) : e.created_utc < timestamp /\ ~e.stale
    /\ \E x \in Range(bundle) : x.stale

\* C4: an incoming entry whose key exists with a different text leaves the
\* existing entry in the bundle with stale=true and is appended non-stale
\* with the run's stamp; the key then has exactly one non-stale entry (the
\* new one) and exactly one stale entry (the one it superseded).
C4_ChangedText ==
    [][(Alicia /\ Synchronized) =>
          \A n \in Range(entries') :
            (/\ OfKey(bundle, Key(n)) # {}
             /\ Latest(bundle, Key(n)).extracted_text # n.extracted_text)
            => /\ [Latest(bundle, Key(n)) EXCEPT !.stale = TRUE] \in Range(bundle')
               /\ n \in Range(bundle')
               /\ ~n.stale
               /\ n.created_utc = timestamp'
               /\ Cardinality({i \in OfKey(bundle', Key(n)) : ~bundle'[i].stale}) = 1
               /\ Cardinality({i \in OfKey(bundle', Key(n)) : bundle'[i].stale}) = 1
      ]_vars

\* C4 witness: the last run changed the text of a key: its entry carries the
\* run's stamp and sits next to the stale entry with the other text.
C4_Witness ==
    /\ Alicia
    /\ \E n \in Range(entries), x \in Range(bundle) :
         /\ n \in Range(bundle)
         /\ ~n.stale
         /\ n.created_utc = timestamp
         /\ Key(x) = Key(n)
         /\ x.stale
         /\ x.extracted_text # n.extracted_text
         /\ x.created_utc < n.created_utc

\* C5: an incoming entry whose key exists with the identical text is a no-op
\* refresh: the key's record afterwards carries the existing created_utc and
\* stale value, and the key has no more records than before.
C5_UnchangedText ==
    [][(Alicia /\ Synchronized) =>
          \A n \in Range(entries') :
            (/\ OfKey(bundle, Key(n)) # {}
             /\ Latest(bundle, Key(n)).extracted_text = n.extracted_text)
            => /\ n \in Range(bundle')
               /\ n.created_utc = Latest(bundle, Key(n)).created_utc
               /\ n.stale = Latest(bundle, Key(n)).stale
               /\ \A i \in OfKey(bundle', Key(n)) : bundle'[i] = n
               /\ Cardinality(OfKey(bundle', Key(n))) <= Cardinality(OfKey(bundle, Key(n)))
      ]_vars

\* C5 witness: the last run refreshed an unchanged entry: it carries a stamp
\* older than the run.
C5_Witness ==
    /\ Alicia
    /\ \E n \in Range(entries) :
         /\ n \in Range(bundle)
         /\ n.created_utc < timestamp

\* C6: every existing entry whose key the batch does not bring is in the
\* bundle afterwards with stale=true, its text and created_utc unchanged.
C6_AbsentKeyKept ==
    [][(Alicia /\ Synchronized) =>
          \A e \in Range(bundle) :
            Key(e) \notin KeysOf(entries')
                => [e EXCEPT !.stale = TRUE] \in Range(bundle')
      ]_vars

\* C7: when the batch omits a key of the bundle, every entry other than that
\* key's latest is untouched: the entries of keys the batch brings with
\* unchanged text, and the older stale entries of any key, are in the bundle
\* afterwards with the same text, created_utc and stale value.
C7_OthersUntouched ==
    [][(Alicia /\ Synchronized /\ KeysOf(bundle) \ KeysOf(entries') # {}) =>
          \A e \in Range(bundle) :
            (\/ /\ e # Latest(bundle, Key(e))
                /\ e.stale
             \/ /\ e = Latest(bundle, Key(e))
                /\ \E n \in Range(entries') :
                     Key(n) = Key(e) /\ n.extracted_text = e.extracted_text)
            => e \in Range(bundle')
      ]_vars

\* The ordering invariant of a bundle.
Sorted(s) == \A i \in 1..(Len(s) - 1) : SortKeyLE(s[i], s[i + 1])

\* C8: every persisted bundle is sorted ascending by
\* (country, source_doc, created_utc).
C8_BundleSorted == Sorted(bundle)

\* C8 witness: a bundle of two countries in which an entry of the first
\* country was written after an entry of the second, next to a stale one.
C8_Witness ==
    /\ Len(bundle) >= 3
    /\ \E x, y \in Range(bundle) :
         /\ x.country < y.country
         /\ x.created_utc > y.created_utc

\* C9: two consecutive runs of kevin_scrape for country "Cuba" (rank 1) and
\* one document with identical text, starting from an empty bundle, leave
\* the GHG Inventory Module bundle with exactly one entry, non-stale, with
\* the created_utc of the first run.
C9_CubaTwice ==
    [][(/\ Kevin
        /\ runs = 1
        /\ Synchronized
        /\ rerun'
        /\ Len(entries') = 1
        /\ entries'[1].country = 1
        /\ entries'[1].section = "GHG Inventory Module")
       => /\ Len(bundle') = 1
          /\ bundle'[1].created_utc = bundle[1].created_utc
          /\ "stale" \in DOMAIN bundle'[1]
          /\ bundle'[1].stale = FALSE
      ]_vars

\* A record is in the bundle: same key, text and created_utc.
Present(s, e) ==
    \E x \in Range(s) :
        /\ Key(x) = Key(e)
        /\ x.extracted_text = e.extracted_text
        /\ x.created_utc = e.created_utc

\* The bundle lacks a record that the finished run of worker w wrote.
LostUpdate(w) ==
    /\ pc[w] = "done"
    /\ \E e \in Range(new_entries[w]) : ~Present(bundle, e)

\* C10: when the two runs are serialized, the bundle never lacks a record
\* written by a finished run; without serialization a lost update is
\* reachable (C10_Witness).
C10_SerializedNoLostUpdate ==
    serialized => \A w \in Workers : ~LostUpdate(w)

\* C10 witness: two runs that were not serialized have both finished and the
\* bundle lacks a record written by one of them.
C10_Witness ==
    /\ ~serialized
    /\ \A w \in Workers : pc[w] = "done"
    /\ \E w \in Workers : LostUpdate(w)

\* C11: synchronizing the same batch a second time yields a bundle with
\* exactly the records of the first synchronization.
C11_WholeBundleIdempotent ==
    [][(Alicia /\ Synchronized /\ rerun') =>
          /\ Len(bundle') = Len(bundle)
          /\ Range(bundle') = Range(bundle)
      ]_vars

\* C16: an incoming entry whose key no existing entry shares is in the bundle
\* afterwards as it was built: its text, the run's stamp, stale=false, and it
\* is the only record of its key.
C16_NewKeyAppended ==
    [][(Alicia /\ Synchronized) =>
          \A n \in Range(entries') :
            OfKey(bundle, Key(n)) = {}
            => /\ n \in Range(bundle')
               /\ ~n.stale
               /\ n.created_utc = timestamp'
               /\ \A i \in OfKey(bundle', Key(n)) : bundle'[i] = n
               /\ Cardinality(OfKey(bundle', Key(n))) = 1
      ]_vars

\* C16 witness: the last run brought a key for the first time, into a bundle
\* that already held the (now stale) entry of another key.
C16_Witness ==
    /\ Alicia
    /\ runs >= 2
    /\ \E n \in Range(entries), x \in Range(bundle) :
         /\ n \in Range(bundle)
         /\ ~n.stale
         /\ n.created_utc = timestamp
         /\ Cardinality(OfKey(bundle, Key(n))) = 1
         /\ Key(x) # Key(n)
         /\ x.stale
         /\ x.created_utc < n.created_utc

\* C12: the normalizer is idempotent: normalizing an already normalized text
\* changes nothing.
C12_CleanIdempotent ==
    [][(passes = 1 /\ passes' = 2) => txt' = txt]_vars

\* ------------------------------------------------------- section extractor
Done == stage = "done"

\* The offsets of the text extracted for one ordered section: its range
\* without the whitespace stripped at both ends.
ExtractedRange(r) ==
    LET solid == {p \in r.start..(r.next_start - 1) :
                    combined_text[p + 1] \notin Whitespace}
    IN IF solid = {} THEN {} ELSE Min(solid)..Max(solid)

\* C13: the extracted ranges of the sections found in one document do not
\* overlap, and every character of the document that is no whitespace is in
\* the extracted range of some section.
C13_NoOverlapFullCoverage ==
    (Done /\ section_spans # <<>>) =>
       /\ \A i, j \in DOMAIN resolved :
            i # j => ExtractedRange(resolved[i]) \cap ExtractedRange(resolved[j]) = {}
       /\ \A p \in 0..(Len(combined_text) - 1) :
            combined_text[p + 1] \notin Whitespace
            => \E i \in DOMAIN resolved : p \in ExtractedRange(resolved[i])

\* C14: the mapping returned does not depend on the order in which the
\* configuration lists its sections.
C14_OrderIndependent ==
    Done => \A c \in Reorderings(section_definitions) :
               extract_sections_from_pdf(c, combined_text) = extracted

AdaptationText == extracted["Adaptation and Vulnerability Module"]

OnExample ==
    /\ Done
    /\ raw_text = ExampleDoc
    /\ section_definitions = KevinConfig

\* C15 as stated: on the example document the text of the adaptation section
\* has the "IV." label in front of the heading, contains "Text A", and ends
\* before "V. Next Heading".
C15_ExampleAsStated ==
    OnExample =>
       /\ "Adaptation and Vulnerability Module" \in DOMAIN extracted
       /\ SubSeq(AdaptationText, 1, 4) = <<"i", ".", SP, "Adaptation actions">>
       /\ "Text A" \in Range(AdaptationText)
       /\ "Next Heading" \notin Range(AdaptationText)

\* C15 amended: on the example document the text of the adaptation section
\* has the "IV." label in front of the heading, contains "Text A", and runs
\* to the end of the document, "V. Next Heading" and what follows included:
\* no configured section starts after it.
C15_ExampleToEndOfDocument ==
    OnExample =>
       /\ "Adaptation and Vulnerability Module" \in DOMAIN extracted
       /\ SubSeq(AdaptationText, 1, 4) = <<"i", ".", SP, "Adaptation actions">>
       /\ "Text A" \in Range(AdaptationText)
       /\ AdaptationText = Slice(combined_text, 2, Len(combined_text))
       /\ "Next Heading" \in Range(AdaptationText)

C15_Witness ==
    /\ OnExample
    /\ "Adaptation and Vulnerability Module" \in DOMAIN extracted
    /\ Len(AdaptationText) > 4

Without(config, k) == Pick(config, DOMAIN config \ {k})

Unmatched == {k \in DOMAIN section_definitions :
                locate(section_definitions[k], combined_text) = {}}

\* C17: when the extraction has returned, a section that nothing matches is
\* absent from the mapping, and the mapping is the one that the
\* configuration without that section gives: the other sections have the
\* text they would have had.
C17_UnmatchedOmitted ==
    Done => \A k \in Unmatched :
              /\ section_definitions[k] \notin DOMAIN extracted
              /\ extracted = extract_sections_from_pdf(
                                 Without(section_definitions, k), combined_text)

C17_Witness ==
    /\ Done
    /\ Unmatched # {}
    /\ DOMAIN extracted # {}

Matching(patterns) ==
    {k \in DOMAIN patterns : search(patterns[k], combined_text) # {}}

SeedOf(section) ==
    {<<section_spans[i].start, section_spans[i].end>> :
        i \in {j \in DOMAIN section_spans : section_spans[j].section = section}}

\* C18: the seed span of a section is the match of its first heading pattern
\* that matches; when no heading pattern matches it is the match of its
\* first fallback pattern that matches; when none matches there is no seed.
C18_LocatorPriority ==
    Done => \A k \in DOMAIN section_definitions :
              LET section == section_definitions[k]
                  H == Matching(SectionDef(section).headings)
                  P == Matching(SectionDef(section).patterns)
              IN SeedOf(section) =
                   IF H # {}
                   THEN search(SectionDef(section).headings[Min(H)], combined_text)
                   ELSE IF P # {}
                   THEN search(SectionDef(section).patterns[Min(P)], combined_text)
                   ELSE {}

\* C18 witness: the first heading pattern that matches does so after the
\* offset at which a later heading pattern matches.
C18_Witness ==
    /\ Done
    /\ \E k \in DOMAIN section_definitions :
         LET headings == SectionDef(section_definitions[k]).headings
             H == Matching(headings)
         IN /\ H # {}
            /\ \E later \in H :
                 \E a \in search(headings[Min(H)], combined_text),
                    b \in search(headings[later], combined_text) :
                      /\ b[1] < a[1]
                      /\ SeedOf(section_definitions[k]) = {a}

\* The offset at which the line before the line of offset p starts, for a
\* line start p > 0.
PrecedingLineStart(p) == previous_newline(combined_text, p - 1) + 1

\* C19: when the line before a heading match is a bare roman-numeral label,
\* the range of the section starts at that label line.
C19_LabelLinePulledIn ==
    Done => \A i \in DOMAIN resolved :
              LET r == resolved[i]
                  p == r.seed_start
              IN (/\ Matching(SectionDef(r.section).headings) # {}
                  /\ p > 0
                  /\ combined_text[p] = NL
                  /\ is_roman_label(Slice(combined_text, PrecedingLineStart(p), p - 1)))
                 => r.start = PrecedingLineStart(p)

\* C20: the ordered sections are in ascending order of seed start; the range
\* of each ends at the seed start of the next, the range of the last at the
\* end of the document, and the text returned is that range, stripped.
C20_RangeEndsAtNextSeed ==
    Done => \A i \in DOMAIN resolved :
              LET r == resolved[i]
                  end == IF i < Len(resolved) THEN resolved[i + 1].seed_start
                         ELSE Len(combined_text)
              IN /\ i < Len(resolved) => r.seed_start <= resolved[i + 1].seed_start
                 /\ r.next_start = end
                 /\ r.section_text = strip(Slice(combined_text, r.start, end))
                 /\ r.section_text # <<>> => extracted[r.section] = r.section_text

\* C20 witness: two sections returned, and the seed span of the first ends
\* a line before the second starts.
C20_Witness ==
    /\ Done
    /\ Len(resolved) = 2
    /\ resolved[1].seed_end < resolved[1].next_start - 1
    /\ DOMAIN extracted = {resolved[1].section, resolved[2].section}

\* The patterns of a list that compile, in their order.
Compiling(patterns) ==
    Pick(patterns, {k \in DOMAIN patterns : patterns[k].kind # "invalid"})

\* C21: a pattern that does not compile is skipped: the seed span of every
\* section is the one its compiling patterns give (headings first, then
\* fallbacks), and the sections behind it in the configuration are located
\* as well.
C21_InvalidPatternSkipped ==
    Done => \A k \in DOMAIN section_definitions :
              LET section == section_definitions[k]
                  heading_match ==
                      first_match(Compiling(SectionDef(section).headings),
                                  combined_text)
              IN SeedOf(section) =
                   IF heading_match # {} THEN heading_match
                   ELSE first_match(Compiling(SectionDef(section).patterns),
                                    combined_text)

\* C21 witness: a section found by the pattern behind one that does not
\* compile, and the section listed after it found too.
C21_Witness ==
    /\ Done
    /\ section_definitions[1] = "Draft patterns"
    /\ SectionDef("Draft patterns").headings[1] = Invalid
    /\ DOMAIN extracted = {"Draft patterns", "National policy framework"}

\* C23: the mapping returned holds no section with an empty text: a section
\* whose range is empty once stripped is left out.
C23_NoEmptyText ==
    Done => /\ \A section \in DOMAIN extracted : extracted[section] # <<>>
            /\ \A i \in DOMAIN resolved :
                 resolved[i].section_text = <<>>
                 => resolved[i].section \notin DOMAIN extracted

\* C23 witness: a section was located, its range is empty, and the mapping
\* returned holds another section but not this one.
C23_Witness ==
    /\ Done
    /\ DOMAIN extracted # {}
    /\ \E i \in DOMAIN resolved :
         /\ resolved[i].section_text = <<>>
         /\ resolved[i].section \notin DOMAIN extracted

\* C24: a bundle of scrape_unfccc holds at most two entries of one identity
\* key, and when it holds two, one is the current entry and the other the
\* stale entry it superseded.
C24_AtMostTwoPerKey ==
    Alicia => \A k \in KeysOf(bundle) :
                /\ Cardinality(OfKey(bundle, k)) <= 2
                /\ Cardinality(OfKey(bundle, k)) = 2
                   => \E i, j \in OfKey(bundle, k) :
                        /\ bundle[i].stale
                        /\ ~bundle[j].stale
                        /\ bundle[i].extracted_text # bundle[j].extracted_text

\* C24 witness: after three runs a key has two entries, and the superseded
\* one was itself built after the first second.
C24_Witness ==
    /\ Alicia
    /\ runs = 3
    /\ \E k \in KeysOf(bundle) :
         /\ Cardinality(OfKey(bundle, k)) = 2
         /\ \E i, j \in OfKey(bundle, k) :
              /\ bundle[i].stale
              /\ ~bundle[j].stale
              /\ bundle[i].created_utc >= 1
              /\ bundle[j].created_utc > bundle[i].created_utc

\* C25: when the bundle's entry of a key is stale and a batch brings the key
\* again with the same text, the bundle afterwards holds for the key only
\* that record, still stale and with its original created_utc.
C25_ReturningKeyStaysStale ==
    [][(Alicia /\ Synchronized) =>
          \A n \in Range(entries') :
            LET i == existing_lookup(bundle, Key(n))
            IN (/\ i # 0
                /\ bundle[i].stale
                /\ bundle[i].extracted_text = n.extracted_text)
               => /\ OfKey(bundle', Key(n)) # {}
                  /\ \A j \in OfKey(bundle', Key(n)) :
                       /\ bundle'[j].stale
                       /\ bundle'[j].created_utc = bundle[i].created_utc
                       /\ bundle'[j].extracted_text = n.extracted_text
      ]_vars

\* C25 witness: the last batch brought, in a later second, a key whose
\* entry had been marked stale, with the same text, and the entry is still
\* stale.
C25_Witness ==
    /\ Alicia
    /\ runs = 3
    /\ \E n \in Range(entries) :
         /\ n.stale
         /\ n.created_utc < timestamp
         /\ \A j \in OfKey(bundle, Key(n)) : bundle[j] = n
         /\ OfKey(bundle, Key(n)) # {}

\* C26: after a synchronization every bundle entry of a country other than
\* the country of the run is stale.
C26_OtherCountriesStale ==
    [][(Alicia /\ Synchronized) =>
          \A e \in Range(bundle') :
            (\A n \in Range(entries') : n.country # e.country) => e.stale
      ]_vars

\* C26 witness: the last run was for one country and the bundle holds an
\* entry of another country, stale.
C26_Witness ==
    /\ Alicia
    /\ entries # <<>>
    /\ \E e \in Range(bundle) :
         /\ e.stale
         /\ \A n \in Range(entries) : n.country # e.country

\* C27: a run that extracts no entry for the section leaves the section's
\* bundle exactly as it was.
C27_EmptyRunLeavesBundle ==
    [][(runs' = runs + 1 /\ entries' = <<>>) => bundle' = bundle]_vars

\* C27 witness: the last run found nothing, and the bundle still holds an
\* entry that is not stale.
C27_Witness ==
    /\ runs >= 2
    /\ entries = <<>>
    /\ timestamp = now
    /\ \E e \in Range(bundle) : Alicia /\ ~e.stale

\* C22: keyword pass: matching lines at most 2 apart form one cluster, each
\* cluster is expanded by 5 lines on both sides, clamped to the document, and
\* the windows emitted are pairwise non-overlapping and in document order:
\* no document line is emitted twice for one section.
KeywordsDone == kw_stage = "done"

C22_WindowsDisjoint ==
    KeywordsDone
    => /\ \A i, j \in DOMAIN seen_spans :
            i < j => seen_spans[i][2] < seen_spans[j][1]
       /\ \A i, j \in DOMAIN context_lines :
            (i # j /\ context_lines[i] # <<>>)
            => context_lines[i] # context_lines[j]

\* C22, the part the pass does keep: one cluster per run of matches at most
\* 2 apart, each window its cluster with 5 lines of context, clamped, and
\* the windows start in document order.
C22_ClustersAndWindows ==
    KeywordsDone
    => /\ \A i \in DOMAIN clusters :
            /\ clusters[i][1] <= clusters[i][2]
            /\ kw_lines[clusters[i][1] + 1] /\ kw_lines[clusters[i][2] + 1]
            /\ \A a \in clusters[i][1]..clusters[i][2] :
                 kw_lines[a + 1]
                 \/ (a > 0 /\ kw_lines[a])
                 \/ (a > 1 /\ kw_lines[a - 1])
            /\ i < Len(clusters)
               => clusters[i + 1][1] - clusters[i][2] > ClusterGap
       /\ \A a \in 0..(Len(kw_lines) - 1) :
            kw_lines[a + 1]
            => \E i \in DOMAIN clusters :
                 a \in clusters[i][1]..clusters[i][2]
       /\ \A i, j \in DOMAIN seen_spans :
            i < j => seen_spans[i][1] <= seen_spans[j][1]

\* C28: in find_section_ranges every returned range (start, end) has
\* start <= end, in whatever order the section headings occur in the
\* document.
RangesDone == ranges_stage = "done"

C28_RangesNotInverted ==
    RangesDone => \A s \in DOMAIN ranges : ranges[s][1] <= ranges[s][2]

\* C29: after any sequence of sequential upserts from no record, each
\* section of the record holds at most one document per doc_type; an upsert
\* with non-empty text for (section, doc_type) replaces the stored text of
\* that document in place, keeping nothing of the previous text, and an
\* upsert with empty text for a section leaves that section's documents as
\* they were.
DocumentsOf(rec, section_name) ==
    IF rec = <<>> THEN <<>>
    ELSE LET have == {i \in DOMAIN rec.sections :
                        rec.sections[i].name = section_name}
         IN IF have = {} THEN <<>> ELSE rec.sections[Min(have)].documents

OfDocType(documents, doc_type) ==
    {j \in DOMAIN documents : documents[j].doc_type = doc_type}

Upserted == upsert_call # <<>>

C29_OneDocumentPerDocType ==
    /\ record # <<>>
       => /\ \A i, j \in DOMAIN record.sections :
               record.sections[i].name = record.sections[j].name => i = j
          /\ \A i \in DOMAIN record.sections : \A t \in DocTypes :
               Cardinality(OfDocType(record.sections[i].documents, t)) <= 1
    /\ Upserted
       => \A k \in DOMAIN upsert_call.new_sections_for_doc :
            LET section_name == upsert_call.new_sections_for_doc[k][1]
                text == upsert_call.new_sections_for_doc[k][2]
                old == DocumentsOf(upsert_call.existing, section_name)
                new == DocumentsOf(record, section_name)
                was == OfDocType(old, upsert_call.doc_type)
            IN IF text = "" THEN new = old
               ELSE IF was = {}
               THEN new = Append(old, [doc_type |-> upsert_call.doc_type,
                                       extracted_text |-> text])
               ELSE new = [old EXCEPT ![Min(was)].extracted_text = text]

\* An upsert replaced a stored text by another one, and skipped an empty
\* text for a section that has documents.
C29_Witness ==
    /\ Upserted
    /\ \E k \in DOMAIN upsert_call.new_sections_for_doc :
         LET section_name == upsert_call.new_sections_for_doc[k][1]
             text == upsert_call.new_sections_for_doc[k][2]
             old == DocumentsOf(upsert_call.existing, section_name)
             was == OfDocType(old, upsert_call.doc_type)
         IN /\ text # ""
            /\ was # {}
            /\ old[Min(was)].extracted_text # text
            /\ Len(old) = 2
    /\ \E k \in DOMAIN upsert_call.new_sections_for_doc :
         /\ upsert_call.new_sections_for_doc[k][2] = ""
         /\ DocumentsOf(upsert_call.existing,
                        upsert_call.new_sections_for_doc[k][1]) # <<>>

\* C30: whenever the quality loop of run() exits, the latest writer draft,
\* the one that is rendered, has been fact-checked: the last entry of the
\* quality log has a checker_confidence that is not None, for every
\* confidence_target and every max_improvement_passes >= 1.
LoopExited == loop_pc = "render"

C30_RenderedDraftChecked ==
    LoopExited => quality_log[Len(quality_log)].checker_confidence # None

====
